---------------------------- MODULE Spec2Model ----------------------------
(***************************************************************************)
(* The five lazy-singleton accessors of C++/DesignPatterns/Singleton.cpp,  *)
(* run by several threads.  One behaviour runs one variant (chosen in      *)
(* Init).  Every access to shared memory is one step.                      *)
(*                                                                         *)
(* Memory is modelled with views (the release/acquire fragment of the      *)
(* C++11 model): the slot m_instance is the sequence of the stores made to *)
(* it, a thread may read any store that is not older than the one it has   *)
(* already seen, and a thread's view records which stores and which        *)
(* constructors' writes happen-before its current position.  Mutex         *)
(* lock/unlock, the static-initialisation guard and the fences of variant  *)
(* 4 carry views from thread to thread; plain and relaxed accesses alone   *)
(* do not.  A racy plain read (variants 1 and 3) is thus a nondeterministic*)
(* choice among the stores the thread may still observe.                   *)
(***************************************************************************)
EXTENDS Integers, Sequences, FiniteSets

\* ---- bounds of the model
NThreads == 2
MaxCalls == 4
MaxFailures == 1

\* ---- program constants
Null == 0
StaticInstance == 1

Threads == 1..NThreads
Variants == 1..5
\* identities of the objects `new Singleton()` can have produced
Instances == 1..MaxCalls

VARIABLES
    variant,      \* which of the five getInstance() is compiled in
    pc,           \* pc[t]: position of thread t inside getInstance()
    tmp,          \* tmp[t]: the pointer thread t holds locally
    calls,        \* calls[t]: getInstance() calls thread t has started
    m_instance,   \* the slot: sequence of stores [val, view], oldest first
    m_mutex,      \* owner of the mutex, 0 when free
    mutexView,    \* view released by the last unlock
    guard,        \* variant 5: state of the static's initialisation guard
    guardView,    \* view released when the guard was set to done
    cur,          \* cur[t]: what happens-before thread t's position
    acq,          \* acq[t]: views of relaxed loads, pending an acquire fence
    rel,          \* rel[t]: view as of the last release fence
    ctorCount,    \* constructor runs completed
    failures,     \* `new` expressions that threw
    result,       \* result[t]: value returned by t's last completed call
    returned,     \* every identity any completed call has returned
    path,         \* path[t]: "fast" / "slow" by the first unlocked check
    observed      \* observed[t]: state of the instance's field t has read

vars == << variant, pc, tmp, calls, m_instance, m_mutex, mutexView, guard,
           guardView, cur, acq, rel, ctorCount, failures, result, returned,
           path, observed >>

\* ---- views
BottomView == [slot |-> 1, inits |-> {}]

Max(a, b) == IF a >= b THEN a ELSE b

Join(v, w) == [slot |-> Max(v.slot, w.slot), inits |-> v.inits \cup w.inits]

RECURSIVE SumCalls(_, _)
SumCalls(f, S) ==
    IF S = {} THEN 0
    ELSE LET t == CHOOSE x \in S : TRUE IN f[t] + SumCalls(f, S \ {t})

TotalCalls == SumCalls(calls, Threads)

\* the value the slot holds in modification order (its latest store)
SlotValue == m_instance[Len(m_instance)].val

\* the stores thread t may still read from the slot
Readable(t) == cur[t].slot .. Len(m_instance)

Init ==
    /\ variant \in Variants
    /\ pc = [t \in Threads |-> "idle"]
    /\ tmp = [t \in Threads |-> Null]
    /\ calls = [t \in Threads |-> 0]
    /\ m_instance = << [val |-> Null, view |-> BottomView] >>
    /\ m_mutex = 0
    /\ mutexView = BottomView
    /\ guard = "uninit"
    /\ guardView = BottomView
    /\ cur = [t \in Threads |-> BottomView]
    /\ acq = [t \in Threads |-> BottomView]
    /\ rel = [t \in Threads |-> BottomView]
    /\ ctorCount = 0
    /\ failures = 0
    /\ result = [t \in Threads |-> Null]
    /\ returned = {}
    /\ path = [t \in Threads |-> "none"]
    /\ observed = [t \in Threads |-> "none"]

\* ---- steps shared by the variants

\* first statement of getInstance() in each variant
Entry(v) ==
    CASE v = 1 -> "v1_check"
      [] v = 2 -> "v2_lock"
      [] v = 3 -> "v3_check1"
      [] v = 4 -> "v4_load1"
      [] v = 5 -> "v5_guard"

\* a thread calls getInstance()
Call(t) ==
    /\ pc[t] = "idle"
    /\ TotalCalls < MaxCalls
    /\ pc' = [pc EXCEPT ![t] = Entry(variant)]
    /\ calls' = [calls EXCEPT ![t] = @ + 1]
    /\ tmp' = [tmp EXCEPT ![t] = Null]
    /\ path' = [path EXCEPT ![t] = "none"]
    /\ observed' = [observed EXCEPT ![t] = "none"]
    /\ UNCHANGED << variant, m_instance, m_mutex, mutexView, guard, guardView,
                    cur, acq, rel, ctorCount, failures, result, returned >>

\* plain read of the slot by thread t from the store at index i
PlainRead(t, i) ==
    /\ i \in Readable(t)
    /\ cur' = [cur EXCEPT ![t].slot = i]

\* `new Singleton()`: allocation and constructor run, the pointer kept locally
NewSingleton(t, next) ==
    /\ ctorCount' = ctorCount + 1
    /\ tmp' = [tmp EXCEPT ![t] = ctorCount + 1]
    /\ cur' = [cur EXCEPT ![t].inits = @ \cup {ctorCount + 1}]
    /\ pc' = [pc EXCEPT ![t] = next]

\* plain store of tmp[t] to the slot
PlainStore(t) ==
    /\ m_instance' = Append(m_instance, [val |-> tmp[t], view |-> BottomView])
    /\ cur' = [cur EXCEPT ![t].slot = Len(m_instance) + 1]

\* mutant of Lock: the mutex is taken whether or not it is held
LockNoExclusion(t) ==
    /\ m_mutex' = t
    /\ cur' = [cur EXCEPT ![t] = Join(@, mutexView)]

\* mutant of Lock: mutual exclusion without the acquire of what was released
LockNoAcquire(t) ==
    /\ m_mutex = 0
    /\ m_mutex' = t
    /\ cur' = cur

\* std::lock_guard constructor: blocks while the mutex is held
Lock(t) ==
    /\ m_mutex = 0
    /\ m_mutex' = t
    /\ cur' = [cur EXCEPT ![t] = Join(@, mutexView)]

\* mutant of Unlock: the destructor leaves the mutex held
UnlockKeepsMutex(t) ==
    /\ m_mutex' = m_mutex
    /\ mutexView' = Join(mutexView, cur[t])

\* std::lock_guard destructor
Unlock(t) ==
    /\ m_mutex' = 0
    /\ mutexView' = Join(mutexView, cur[t])

\* the call returns p to its caller
Return(t, p) ==
    /\ result' = [result EXCEPT ![t] = p]
    /\ returned' = returned \cup {p}
    /\ pc' = [pc EXCEPT ![t] = "idle"]

\* mutant of V1Check: the null-check is ignored
V1CheckAlwaysNew(t) ==
    /\ variant = 1 /\ pc[t] = "v1_check"
    /\ \E i \in Readable(t) :
         /\ PlainRead(t, i)
         /\ pc' = [pc EXCEPT ![t] = "v1_new"]
    /\ UNCHANGED << variant, tmp, calls, m_instance, m_mutex, mutexView, guard,
                    guardView, acq, rel, ctorCount, failures, result, returned,
                    path, observed >>

\* ---- variant 1: unsynchronised null-check

V1Check(t) ==
    /\ variant = 1 /\ pc[t] = "v1_check"
    /\ \E i \in Readable(t) :
         /\ PlainRead(t, i)
         /\ pc' = [pc EXCEPT ![t] =
                     IF m_instance[i].val = Null THEN "v1_new" ELSE "v1_ret"]
    /\ UNCHANGED << variant, tmp, calls, m_instance, m_mutex, mutexView, guard,
                    guardView, acq, rel, ctorCount, failures, result, returned,
                    path, observed >>

V1New(t) ==
    /\ variant = 1 /\ pc[t] = "v1_new"
    /\ NewSingleton(t, "v1_store")
    /\ UNCHANGED << variant, calls, m_instance, m_mutex, mutexView, guard,
                    guardView, acq, rel, failures, result, returned, path,
                    observed >>

V1NewThrows(t) ==
    /\ variant = 1 /\ pc[t] = "v1_new"
    /\ failures < MaxFailures
    /\ failures' = failures + 1
    /\ pc' = [pc EXCEPT ![t] = "idle"]
    /\ UNCHANGED << variant, tmp, calls, m_instance, m_mutex, mutexView, guard,
                    guardView, cur, acq, rel, ctorCount, result, returned,
                    path, observed >>

\* mutant of V1Store: the store is skipped when the slot is already set
V1StoreIfNull(t) ==
    /\ variant = 1 /\ pc[t] = "v1_store"
    /\ IF SlotValue = Null
       THEN PlainStore(t)
       ELSE UNCHANGED << m_instance, cur >>
    /\ pc' = [pc EXCEPT ![t] = "v1_ret"]
    /\ UNCHANGED << variant, tmp, calls, m_mutex, mutexView, guard, guardView,
                    acq, rel, ctorCount, failures, result, returned, path,
                    observed >>

V1Store(t) ==
    /\ variant = 1 /\ pc[t] = "v1_store"
    /\ PlainStore(t)
    /\ pc' = [pc EXCEPT ![t] = "v1_ret"]
    /\ UNCHANGED << variant, tmp, calls, m_mutex, mutexView, guard, guardView,
                    acq, rel, ctorCount, failures, result, returned, path,
                    observed >>

\* mutant of V1Ret: the value returned is any the slot ever held
V1RetStale(t) ==
    /\ variant = 1 /\ pc[t] = "v1_ret"
    /\ \E i \in 1..Len(m_instance) :
         /\ cur' = [cur EXCEPT ![t].slot = Max(@, i)]
         /\ Return(t, m_instance[i].val)
    /\ UNCHANGED << variant, tmp, calls, m_instance, m_mutex, mutexView, guard,
                    guardView, acq, rel, ctorCount, failures, path, observed >>

V1Ret(t) ==
    /\ variant = 1 /\ pc[t] = "v1_ret"
    /\ \E i \in Readable(t) :
         /\ PlainRead(t, i)
         /\ Return(t, m_instance[i].val)
    /\ UNCHANGED << variant, tmp, calls, m_instance, m_mutex, mutexView, guard,
                    guardView, acq, rel, ctorCount, failures, path, observed >>

\* ---- variant 2: lock, then null-check

\* mutant of V2Lock: the lock is taken only while the slot is still null
V2LockSkipIfSet(t) ==
    /\ variant = 2 /\ pc[t] = "v2_lock"
    /\ IF SlotValue = Null
       THEN Lock(t)
       ELSE UNCHANGED << m_mutex, cur >>
    /\ pc' = [pc EXCEPT ![t] = "v2_check"]
    /\ UNCHANGED << variant, tmp, calls, m_instance, mutexView, guard,
                    guardView, acq, rel, ctorCount, failures, result, returned,
                    path, observed >>

V2Lock(t) ==
    /\ variant = 2 /\ pc[t] = "v2_lock"
    /\ Lock(t)
    /\ pc' = [pc EXCEPT ![t] = "v2_check"]
    /\ UNCHANGED << variant, tmp, calls, m_instance, mutexView, guard,
                    guardView, acq, rel, ctorCount, failures, result, returned,
                    path, observed >>

\* mutant of V2Check: the null-check under the lock is ignored
V2CheckAlwaysNew(t) ==
    /\ variant = 2 /\ pc[t] = "v2_check"
    /\ \E i \in Readable(t) :
         /\ PlainRead(t, i)
         /\ pc' = [pc EXCEPT ![t] = "v2_new"]
    /\ UNCHANGED << variant, tmp, calls, m_instance, m_mutex, mutexView, guard,
                    guardView, acq, rel, ctorCount, failures, result, returned,
                    path, observed >>

V2Check(t) ==
    /\ variant = 2 /\ pc[t] = "v2_check"
    /\ \E i \in Readable(t) :
         /\ PlainRead(t, i)
         /\ pc' = [pc EXCEPT ![t] =
                     IF m_instance[i].val = Null THEN "v2_new" ELSE "v2_ret"]
    /\ UNCHANGED << variant, tmp, calls, m_instance, m_mutex, mutexView, guard,
                    guardView, acq, rel, ctorCount, failures, result, returned,
                    path, observed >>

V2New(t) ==
    /\ variant = 2 /\ pc[t] = "v2_new"
    /\ NewSingleton(t, "v2_store")
    /\ UNCHANGED << variant, calls, m_instance, m_mutex, mutexView, guard,
                    guardView, acq, rel, failures, result, returned, path,
                    observed >>

\* mutant of V2NewThrows: the exception leaves the call with the mutex held
V2NewThrowsKeepsLock(t) ==
    /\ variant = 2 /\ pc[t] = "v2_new"
    /\ failures < MaxFailures
    /\ failures' = failures + 1
    /\ pc' = [pc EXCEPT ![t] = "idle"]
    /\ UNCHANGED << variant, tmp, calls, m_instance, m_mutex, mutexView, guard,
                    guardView, cur, acq, rel, ctorCount, result, returned,
                    path, observed >>

\* the exception unwinds through the lock_guard
V2NewThrows(t) ==
    /\ variant = 2 /\ pc[t] = "v2_new"
    /\ failures < MaxFailures
    /\ failures' = failures + 1
    /\ Unlock(t)
    /\ pc' = [pc EXCEPT ![t] = "idle"]
    /\ UNCHANGED << variant, tmp, calls, m_instance, guard, guardView, cur,
                    acq, rel, ctorCount, result, returned, path, observed >>

V2Store(t) ==
    /\ variant = 2 /\ pc[t] = "v2_store"
    /\ PlainStore(t)
    /\ pc' = [pc EXCEPT ![t] = "v2_ret"]
    /\ UNCHANGED << variant, tmp, calls, m_mutex, mutexView, guard, guardView,
                    acq, rel, ctorCount, failures, result, returned, path,
                    observed >>

\* `return m_instance`: the return value is read with the lock still held
V2Ret(t) ==
    /\ variant = 2 /\ pc[t] = "v2_ret"
    /\ \E i \in Readable(t) :
         /\ PlainRead(t, i)
         /\ tmp' = [tmp EXCEPT ![t] = m_instance[i].val]
    /\ pc' = [pc EXCEPT ![t] = "v2_unlock"]
    /\ UNCHANGED << variant, calls, m_instance, m_mutex, mutexView, guard,
                    guardView, acq, rel, ctorCount, failures, result, returned,
                    path, observed >>

\* the lock_guard goes out of scope and the call returns
V2Unlock(t) ==
    /\ variant = 2 /\ pc[t] = "v2_unlock"
    /\ Unlock(t)
    /\ Return(t, tmp[t])
    /\ UNCHANGED << variant, tmp, calls, m_instance, guard, guardView, cur,
                    acq, rel, ctorCount, failures, path, observed >>

\* ---- variant 3: double-checked locking on a plain pointer

\* mutant of V3Check1: the first check is ignored, every call takes the lock
V3Check1AlwaysLock(t) ==
    /\ variant = 3 /\ pc[t] = "v3_check1"
    /\ \E i \in Readable(t) :
         /\ PlainRead(t, i)
         /\ pc' = [pc EXCEPT ![t] = "v3_lock"]
         /\ path' = [path EXCEPT ![t] =
                     IF m_instance[i].val = Null THEN "slow" ELSE "fast"]
    /\ UNCHANGED << variant, tmp, calls, m_instance, m_mutex, mutexView, guard,
                    guardView, acq, rel, ctorCount, failures, result, returned,
                    observed >>

V3Check1(t) ==
    /\ variant = 3 /\ pc[t] = "v3_check1"
    /\ \E i \in Readable(t) :
         /\ PlainRead(t, i)
         /\ pc' = [pc EXCEPT ![t] =
                     IF m_instance[i].val = Null THEN "v3_lock" ELSE "v3_ret"]
         /\ path' = [path EXCEPT ![t] =
                     IF m_instance[i].val = Null THEN "slow" ELSE "fast"]
    /\ UNCHANGED << variant, tmp, calls, m_instance, m_mutex, mutexView, guard,
                    guardView, acq, rel, ctorCount, failures, result, returned,
                    observed >>

\* mutant of V3Lock: the second check is entered without taking the mutex
V3LockSkipped(t) ==
    /\ variant = 3 /\ pc[t] = "v3_lock"
    /\ pc' = [pc EXCEPT ![t] = "v3_check2"]
    /\ UNCHANGED << variant, tmp, calls, m_instance, m_mutex, mutexView, guard,
                    guardView, cur, acq, rel, ctorCount, failures, result,
                    returned, path, observed >>

V3Lock(t) ==
    /\ variant = 3 /\ pc[t] = "v3_lock"
    /\ Lock(t)
    /\ pc' = [pc EXCEPT ![t] = "v3_check2"]
    /\ UNCHANGED << variant, tmp, calls, m_instance, mutexView, guard,
                    guardView, acq, rel, ctorCount, failures, result, returned,
                    path, observed >>

\* mutant of V3Check2: no second check, the thread that took the lock constructs
V3Check2NoRecheck(t) ==
    /\ variant = 3 /\ pc[t] = "v3_check2"
    /\ \E i \in Readable(t) :
         /\ PlainRead(t, i)
         /\ pc' = [pc EXCEPT ![t] = "v3_new"]
    /\ UNCHANGED << variant, tmp, calls, m_instance, m_mutex, mutexView, guard,
                    guardView, acq, rel, ctorCount, failures, result, returned,
                    path, observed >>

V3Check2(t) ==
    /\ variant = 3 /\ pc[t] = "v3_check2"
    /\ \E i \in Readable(t) :
         /\ PlainRead(t, i)
         /\ pc' = [pc EXCEPT ![t] =
                     IF m_instance[i].val = Null THEN "v3_new" ELSE "v3_unlock"]
    /\ UNCHANGED << variant, tmp, calls, m_instance, m_mutex, mutexView, guard,
                    guardView, acq, rel, ctorCount, failures, result, returned,
                    path, observed >>

V3New(t) ==
    /\ variant = 3 /\ pc[t] = "v3_new"
    /\ NewSingleton(t, "v3_store")
    /\ UNCHANGED << variant, calls, m_instance, m_mutex, mutexView, guard,
                    guardView, acq, rel, failures, result, returned, path,
                    observed >>

V3NewThrows(t) ==
    /\ variant = 3 /\ pc[t] = "v3_new"
    /\ failures < MaxFailures
    /\ failures' = failures + 1
    /\ Unlock(t)
    /\ pc' = [pc EXCEPT ![t] = "idle"]
    /\ UNCHANGED << variant, tmp, calls, m_instance, guard, guardView, cur,
                    acq, rel, ctorCount, result, returned, path, observed >>

V3Store(t) ==
    /\ variant = 3 /\ pc[t] = "v3_store"
    /\ PlainStore(t)
    /\ pc' = [pc EXCEPT ![t] = "v3_unlock"]
    /\ UNCHANGED << variant, tmp, calls, m_mutex, mutexView, guard, guardView,
                    acq, rel, ctorCount, failures, result, returned, path,
                    observed >>

V3Unlock(t) ==
    /\ variant = 3 /\ pc[t] = "v3_unlock"
    /\ Unlock(t)
    /\ pc' = [pc EXCEPT ![t] = "v3_ret"]
    /\ UNCHANGED << variant, tmp, calls, m_instance, guard, guardView, cur,
                    acq, rel, ctorCount, failures, result, returned, path,
                    observed >>

\* mutant of V3Ret: the value returned is any the slot ever held
V3RetStale(t) ==
    /\ variant = 3 /\ pc[t] = "v3_ret"
    /\ \E i \in 1..Len(m_instance) :
         /\ cur' = [cur EXCEPT ![t].slot = Max(@, i)]
         /\ Return(t, m_instance[i].val)
    /\ UNCHANGED << variant, tmp, calls, m_instance, m_mutex, mutexView, guard,
                    guardView, acq, rel, ctorCount, failures, path, observed >>

\* `return m_instance`: the slot is read again, outside the critical section
V3Ret(t) ==
    /\ variant = 3 /\ pc[t] = "v3_ret"
    /\ \E i \in Readable(t) :
         /\ PlainRead(t, i)
         /\ Return(t, m_instance[i].val)
    /\ UNCHANGED << variant, tmp, calls, m_instance, m_mutex, mutexView, guard,
                    guardView, acq, rel, ctorCount, failures, path, observed >>

\* ---- variant 4: double-checked locking, atomic slot and fences

\* m_instance.load(std::memory_order_relaxed) from the store at index i
RelaxedLoad(t, i) ==
    /\ i \in Readable(t)
    /\ tmp' = [tmp EXCEPT ![t] = m_instance[i].val]
    /\ cur' = [cur EXCEPT ![t].slot = i]
    /\ acq' = [acq EXCEPT ![t] =
                 Join(Join(@, m_instance[i].view), [slot |-> i, inits |-> {}])]

\* std::atomic_thread_fence(std::memory_order_acquire)
AcquireFence(t) ==
    /\ cur' = [cur EXCEPT ![t] = Join(@, acq[t])]

\* mutant of ReleaseFence: the fence orders nothing
NoReleaseFence(t) ==
    /\ rel' = rel

\* std::atomic_thread_fence(std::memory_order_release)
ReleaseFence(t) ==
    /\ rel' = [rel EXCEPT ![t] = cur[t]]

\* m_instance.store(tmp, std::memory_order_relaxed)
RelaxedStore(t) ==
    /\ m_instance' = Append(m_instance,
          [val |-> tmp[t],
           view |-> Join(rel[t], [slot |-> Len(m_instance) + 1, inits |-> {}])])
    /\ cur' = [cur EXCEPT ![t].slot = Len(m_instance) + 1]

V4Load1(t) ==
    /\ variant = 4 /\ pc[t] = "v4_load1"
    /\ \E i \in Readable(t) : RelaxedLoad(t, i)
    /\ pc' = [pc EXCEPT ![t] = "v4_fence_acq"]
    /\ UNCHANGED << variant, calls, m_instance, m_mutex, mutexView, guard,
                    guardView, rel, ctorCount, failures, result, returned,
                    path, observed >>

\* the acquire fence, then `if (tmp == nullptr)`
V4FenceAcq(t) ==
    /\ variant = 4 /\ pc[t] = "v4_fence_acq"
    /\ AcquireFence(t)
    /\ pc' = [pc EXCEPT ![t] = IF tmp[t] = Null THEN "v4_lock" ELSE "v4_ret"]
    /\ path' = [path EXCEPT ![t] = IF tmp[t] = Null THEN "slow" ELSE "fast"]
    /\ UNCHANGED << variant, tmp, calls, m_instance, m_mutex, mutexView, guard,
                    guardView, acq, rel, ctorCount, failures, result, returned,
                    observed >>

\* mutant of V4Lock: the second load is made without taking the mutex
V4LockSkipped(t) ==
    /\ variant = 4 /\ pc[t] = "v4_lock"
    /\ pc' = [pc EXCEPT ![t] = "v4_load2"]
    /\ UNCHANGED << variant, tmp, calls, m_instance, m_mutex, mutexView, guard,
                    guardView, cur, acq, rel, ctorCount, failures, result,
                    returned, path, observed >>

V4Lock(t) ==
    /\ variant = 4 /\ pc[t] = "v4_lock"
    /\ Lock(t)
    /\ pc' = [pc EXCEPT ![t] = "v4_load2"]
    /\ UNCHANGED << variant, tmp, calls, m_instance, mutexView, guard,
                    guardView, acq, rel, ctorCount, failures, result, returned,
                    path, observed >>

\* mutant of V4Load2: no second check, the thread that took the lock constructs
V4Load2NoRecheck(t) ==
    /\ variant = 4 /\ pc[t] = "v4_load2"
    /\ \E i \in Readable(t) :
         /\ RelaxedLoad(t, i)
         /\ pc' = [pc EXCEPT ![t] = "v4_new"]
    /\ UNCHANGED << variant, calls, m_instance, m_mutex, mutexView, guard,
                    guardView, rel, ctorCount, failures, result, returned,
                    path, observed >>

\* the load under the lock, then `if (tmp == nullptr)`
V4Load2(t) ==
    /\ variant = 4 /\ pc[t] = "v4_load2"
    /\ \E i \in Readable(t) :
         /\ RelaxedLoad(t, i)
         /\ pc' = [pc EXCEPT ![t] =
                     IF m_instance[i].val = Null THEN "v4_new" ELSE "v4_unlock"]
    /\ UNCHANGED << variant, calls, m_instance, m_mutex, mutexView, guard,
                    guardView, rel, ctorCount, failures, result, returned,
                    path, observed >>

V4New(t) ==
    /\ variant = 4 /\ pc[t] = "v4_new"
    /\ NewSingleton(t, "v4_fence_rel")
    /\ UNCHANGED << variant, calls, m_instance, m_mutex, mutexView, guard,
                    guardView, acq, rel, failures, result, returned, path,
                    observed >>

\* mutant of V4NewThrows: the pointer is published before the construction,
\* which then fails
V4NewThrowsAfterStore(t) ==
    /\ variant = 4 /\ pc[t] = "v4_new"
    /\ failures < MaxFailures
    /\ failures' = failures + 1
    /\ m_instance' = Append(m_instance,
                            [val |-> ctorCount + 1, view |-> BottomView])
    /\ Unlock(t)
    /\ pc' = [pc EXCEPT ![t] = "idle"]
    /\ UNCHANGED << variant, tmp, calls, guard, guardView, cur, acq, rel,
                    ctorCount, result, returned, path, observed >>

V4NewThrows(t) ==
    /\ variant = 4 /\ pc[t] = "v4_new"
    /\ failures < MaxFailures
    /\ failures' = failures + 1
    /\ Unlock(t)
    /\ pc' = [pc EXCEPT ![t] = "idle"]
    /\ UNCHANGED << variant, tmp, calls, m_instance, guard, guardView, cur,
                    acq, rel, ctorCount, result, returned, path, observed >>

V4FenceRel(t) ==
    /\ variant = 4 /\ pc[t] = "v4_fence_rel"
    /\ ReleaseFence(t)
    /\ pc' = [pc EXCEPT ![t] = "v4_store"]
    /\ UNCHANGED << variant, tmp, calls, m_instance, m_mutex, mutexView, guard,
                    guardView, cur, acq, ctorCount, failures, result, returned,
                    path, observed >>

\* mutant of V4Store: the new instance is never published
V4StoreDropped(t) ==
    /\ variant = 4 /\ pc[t] = "v4_store"
    /\ pc' = [pc EXCEPT ![t] = "v4_unlock"]
    /\ UNCHANGED << variant, tmp, calls, m_instance, m_mutex, mutexView, guard,
                    guardView, cur, acq, rel, ctorCount, failures, result,
                    returned, path, observed >>

V4Store(t) ==
    /\ variant = 4 /\ pc[t] = "v4_store"
    /\ RelaxedStore(t)
    /\ pc' = [pc EXCEPT ![t] = "v4_unlock"]
    /\ UNCHANGED << variant, tmp, calls, m_mutex, mutexView, guard, guardView,
                    acq, rel, ctorCount, failures, result, returned, path,
                    observed >>

V4Unlock(t) ==
    /\ variant = 4 /\ pc[t] = "v4_unlock"
    /\ Unlock(t)
    /\ pc' = [pc EXCEPT ![t] = "v4_ret"]
    /\ UNCHANGED << variant, tmp, calls, m_instance, guard, guardView, cur,
                    acq, rel, ctorCount, failures, result, returned, path,
                    observed >>

\* `return tmp`: the local copy, the slot is not read again
V4Ret(t) ==
    /\ variant = 4 /\ pc[t] = "v4_ret"
    /\ Return(t, tmp[t])
    /\ UNCHANGED << variant, tmp, calls, m_instance, m_mutex, mutexView, guard,
                    guardView, cur, acq, rel, ctorCount, failures, path,
                    observed >>

\* ---- variant 5: function-local static

\* mutant of V5Guard: a thread arriving during initialisation initialises too
V5GuardNoWait(t) ==
    /\ variant = 5 /\ pc[t] = "v5_guard"
    /\ IF guard # "done"
       THEN /\ guard' = "initializing"
            /\ pc' = [pc EXCEPT ![t] = "v5_init"]
            /\ cur' = cur
       ELSE /\ guard' = guard
            /\ pc' = [pc EXCEPT ![t] = "v5_ret"]
            /\ cur' = [cur EXCEPT ![t] = Join(@, guardView)]
    /\ UNCHANGED << variant, tmp, calls, m_instance, m_mutex, mutexView,
                    guardView, acq, rel, ctorCount, failures, result, returned,
                    path, observed >>

\* the guard of `static Singleton instance`: the first thread to arrive
\* initialises, a thread arriving during initialisation waits, a thread
\* arriving after it proceeds and sees the initialised object
V5Guard(t) ==
    /\ variant = 5 /\ pc[t] = "v5_guard"
    /\ guard # "initializing"
    /\ IF guard = "uninit"
       THEN /\ guard' = "initializing"
            /\ pc' = [pc EXCEPT ![t] = "v5_init"]
            /\ cur' = cur
       ELSE /\ guard' = guard
            /\ pc' = [pc EXCEPT ![t] = "v5_ret"]
            /\ cur' = [cur EXCEPT ![t] = Join(@, guardView)]
    /\ UNCHANGED << variant, tmp, calls, m_instance, m_mutex, mutexView,
                    guardView, acq, rel, ctorCount, failures, result, returned,
                    path, observed >>

\* the constructor runs on the static storage
V5Init(t) ==
    /\ variant = 5 /\ pc[t] = "v5_init"
    /\ ctorCount' = ctorCount + 1
    /\ cur' = [cur EXCEPT ![t].inits = @ \cup {StaticInstance}]
    /\ pc' = [pc EXCEPT ![t] = "v5_done"]
    /\ UNCHANGED << variant, tmp, calls, m_instance, m_mutex, mutexView, guard,
                    guardView, acq, rel, failures, result, returned, path,
                    observed >>

\* the guard is released: initialisation is complete
V5Done(t) ==
    /\ variant = 5 /\ pc[t] = "v5_done"
    /\ guard' = "done"
    /\ guardView' = Join(guardView, cur[t])
    /\ pc' = [pc EXCEPT ![t] = "v5_ret"]
    /\ UNCHANGED << variant, tmp, calls, m_instance, m_mutex, mutexView, cur,
                    acq, rel, ctorCount, failures, result, returned, path,
                    observed >>

\* `return instance`: the address of the static
V5Ret(t) ==
    /\ variant = 5 /\ pc[t] = "v5_ret"
    /\ Return(t, StaticInstance)
    /\ UNCHANGED << variant, tmp, calls, m_instance, m_mutex, mutexView, guard,
                    guardView, cur, acq, rel, ctorCount, failures, path,
                    observed >>

\* ---- the caller uses the instance

\* what a read of the field of instance p by thread t can yield: the
\* constructor's value when its write happens-before the read, else either
FieldValues(t, p) ==
    IF p \in cur[t].inits THEN {"init"} ELSE {"pre", "init"}

\* after a call has returned, its caller reads the instance's field
ReadField(t) ==
    /\ pc[t] = "idle" /\ calls[t] > 0
    /\ result[t] # Null
    /\ observed[t] = "none"
    /\ \E v \in FieldValues(t, result[t]) :
         /\ observed' = [observed EXCEPT ![t] = v]
         /\ cur' = IF v = "init"
                   THEN [cur EXCEPT ![t].inits = @ \cup {result[t]}]
                   ELSE cur
    /\ UNCHANGED << variant, pc, tmp, calls, m_instance, m_mutex, mutexView,
                    guard, guardView, acq, rel, ctorCount, failures, result,
                    returned, path >>

Next ==
    \E t \in Threads :
        \/ Call(t)
        \/ V1Check(t) \/ V1New(t) \/ V1NewThrows(t) \/ V1Store(t) \/ V1Ret(t)
        \/ V2Lock(t) \/ V2Check(t) \/ V2New(t) \/ V2NewThrows(t)
        \/ V2Store(t) \/ V2Ret(t) \/ V2Unlock(t)
        \/ V3Check1(t) \/ V3Lock(t) \/ V3Check2(t) \/ V3New(t)
        \/ V3NewThrows(t) \/ V3Store(t) \/ V3Unlock(t) \/ V3Ret(t)
        \/ V4Load1(t) \/ V4FenceAcq(t) \/ V4Lock(t) \/ V4Load2(t)
        \/ V4New(t) \/ V4NewThrows(t) \/ V4FenceRel(t) \/ V4Store(t)
        \/ V4Unlock(t) \/ V4Ret(t)
        \/ V5Guard(t) \/ V5Init(t) \/ V5Done(t) \/ V5Ret(t)
        \/ ReadField(t)

Spec == Init /\ [][Next]_vars

\* ---- properties

\* the identities stored to the slot so far
Stored == { m_instance[i].val : i \in 2..Len(m_instance) }

\* the threads that have called getInstance() at least once
Callers == { t \in Threads : calls[t] > 0 }

\* C1: in variant 2 the constructor has run at most once in every reachable
\* state, and exactly once as soon as any call has returned.
C1_ConstructedOnceV2 ==
    variant = 2 =>
        /\ ctorCount <= 1
        /\ (returned # {} => ctorCount = 1)

\* C1 witness: one thread has constructed under the lock while another
\* thread, which called during the uninitialised window, waits for the mutex.
C1_Witness ==
    /\ variant = 2 /\ ctorCount = 1 /\ returned = {}
    /\ \E t, u \in Threads :
         /\ t # u
         /\ pc[t] = "v2_unlock" /\ m_mutex = t
         /\ pc[u] = "v2_lock"

\* C2: in variant 4 the constructor has run at most once; a thread is at the
\* construction, the release fence or the store only while nothing has been
\* published, and a thread that leaves the critical section holds the
\* published, non-null pointer.
C2_ConstructedOnceV4 ==
    variant = 4 =>
        /\ ctorCount <= 1
        /\ \A t \in Threads :
             /\ (pc[t] \in {"v4_new", "v4_fence_rel", "v4_store"}
                   => Len(m_instance) = 1)
             /\ (pc[t] = "v4_new" => ctorCount = 0)
             /\ (pc[t] = "v4_unlock" => tmp[t] # Null /\ tmp[t] = SlotValue)

\* C2 witness: two threads both read null at the first, unlocked load; t
\* went through the critical section first and published, u took the mutex
\* after it, re-read a non-null slot and did not construct.
C2_Witness ==
    /\ variant = 4 /\ ctorCount = 1 /\ failures = 0
    /\ \E t, u \in Threads :
         /\ t # u
         /\ calls[t] = 1 /\ calls[u] = 1
         /\ path[t] = "slow" /\ path[u] = "slow"
         /\ pc[t] = "v4_ret"
         /\ pc[u] = "v4_unlock" /\ m_mutex = u /\ tmp[u] = tmp[t]

\* C3: in variant 5 the constructor counter never exceeds 1 and equals 1 once
\* any call has returned; a thread is past the guard without having
\* initialised the static itself, or has returned, only when the
\* initialisation is complete, and it then sees the constructed object.
C3_StaticInitOnceV5 ==
    variant = 5 =>
        /\ ctorCount <= 1
        /\ (returned # {} => ctorCount = 1 /\ guard = "done")
        /\ \A t \in Threads :
             pc[t] = "v5_ret" =>
                 /\ guard = "done"
                 /\ StaticInstance \in cur[t].inits

\* C3 witness: a thread has arrived at the guard while another thread is
\* still initialising the static (its constructor has run, the guard is not
\* yet released).
C3_Witness ==
    /\ variant = 5 /\ guard = "initializing" /\ ctorCount = 1
    /\ \E t, u \in Threads :
         /\ t # u
         /\ pc[t] = "v5_done"
         /\ pc[u] = "v5_guard"

\* C4: in variants 2, 4 and 5 all completed calls have returned one and the
\* same non-null reference.
C4_OneIdentity ==
    variant \in {2, 4, 5} =>
        /\ Cardinality(returned) <= 1
        /\ Null \notin returned
        /\ \A t \in Threads : result[t] # Null => returned = {result[t]}

\* C4 witness: every thread has completed a call, one of them two, and all
\* results are the same reference.
C4_Witness ==
    /\ variant = 4 /\ TotalCalls = MaxCalls
    /\ \A t \in Threads : pc[t] = "idle" /\ result[t] # Null
    /\ \E t \in Threads : calls[t] >= 2
    /\ \A t, u \in Threads : result[t] = result[u]

\* C5: in variant 4 no thread reads the field of the instance in its
\* pre-initialised state: the constructor's writes happen-before the position
\* of every thread that holds the returned reference.
C5_NoPreInitReadV4 ==
    variant = 4 =>
        \A t \in Threads :
            /\ observed[t] # "pre"
            /\ (pc[t] = "v4_ret" => tmp[t] \in cur[t].inits)
            /\ (result[t] # Null => result[t] \in cur[t].inits)

\* C5 witness: a thread that never took the mutex (its only call read a
\* non-null pointer at the unlocked load) has read the field, initialised.
C5_Witness ==
    /\ variant = 4
    /\ \E t \in Threads :
         /\ calls[t] = 1 /\ path[t] = "fast"
         /\ result[t] # Null
         /\ observed[t] = "init"

\* C6: in variant 3 the field can be read in its pre-initialised state, and
\* only by a thread whose call passed the first unlocked null-check with a
\* non-null pointer; a thread that went through the mutex sees the
\* constructor's writes.
C6_PreInitReadOnlyOnFastPathV3 ==
    variant = 3 =>
        \A t \in Threads :
            /\ (observed[t] = "pre" => path[t] = "fast")
            /\ (path[t] = "slow" /\ pc[t] = "v3_ret" => Stored \subseteq cur[t].inits)

\* C6 witness: a thread's only call passed the first null-check with a
\* non-null pointer, never took the mutex, returned the pointer, and the
\* thread read the field before the constructor's write was visible to it.
C6_Witness ==
    /\ variant = 3
    /\ \E t \in Threads :
         /\ calls[t] = 1 /\ path[t] = "fast"
         /\ pc[t] = "idle" /\ result[t] # Null
         /\ observed[t] = "pre"

\* C7: in variant 1 every construction is followed by a store to the slot
\* (nothing stops a thread that read null from constructing), the instances
\* stored are pairwise distinct, and so every store after the first
\* overwrites the slot and leaves the earlier instances unreferenced by it.
C7_EveryConstructionOverwritesV1 ==
    variant = 1 =>
        /\ ctorCount = Len(m_instance) - 1
                         + Cardinality({ t \in Threads : pc[t] = "v1_store" })
        /\ \A i, j \in 2..Len(m_instance) :
             i # j => m_instance[i].val # m_instance[j].val
        /\ \A i \in 2..(Len(m_instance) - 1) : m_instance[i].val # SlotValue

\* C7 witness: two threads, each in its first call, both read the slot as
\* null and both ran the constructor; the construction count is 2, and the
\* second store has overwritten the slot, which no longer holds the first
\* instance.
C7_Witness ==
    /\ variant = 1 /\ failures = 0
    /\ ctorCount = 2 /\ Len(m_instance) = 3
    /\ m_instance[2].val # SlotValue
    /\ \E t, u \in Threads :
         /\ t # u
         /\ calls[t] = 1 /\ calls[u] = 1
         /\ pc[t] = "v1_ret" /\ pc[u] = "v1_ret"
         /\ tmp[t] # tmp[u] /\ tmp[t] # Null /\ tmp[u] # Null

\* C8: in variant 1 every call returns an instance that was stored to the
\* slot (never null), and the number of distinct references returned is
\* bounded only by the number of constructions.
C8_ReturnsStoredInstancesV1 ==
    variant = 1 =>
        /\ returned \subseteq Stored
        /\ Cardinality(returned) <= ctorCount

\* C8 witness: two completed calls, by two threads, have returned two
\* distinct references.
C8_Witness ==
    /\ variant = 1
    /\ Cardinality(returned) >= 2
    /\ \E t, u \in Threads :
         /\ pc[t] = "idle" /\ pc[u] = "idle"
         /\ result[t] # Null /\ result[u] # Null
         /\ result[t] # result[u]

\* C9: in variant 1, as long as only one thread has ever called
\* getInstance(), the constructor has run at most once, exactly once when a
\* call has returned, all calls have returned the same reference, and the
\* construction is made by the thread's first call (the first after the
\* calls, if any, in which `new` threw), before any call has returned.
C9_SingleThreadedV1 ==
    variant = 1 /\ Cardinality(Callers) <= 1 =>
        /\ ctorCount <= 1
        /\ Cardinality(returned) <= 1
        /\ (returned # {} => ctorCount = 1)
        /\ \A t \in Threads :
             pc[t] \in {"v1_new", "v1_store"} =>
                 /\ calls[t] = failures + 1
                 /\ returned = {}

\* C9 witness: a single thread has made every call of the run, all have
\* returned, and the constructor has run once.
C9_Witness ==
    /\ variant = 1 /\ failures = 0 /\ ctorCount = 1
    /\ \E t \in Threads :
         /\ Callers = {t}
         /\ calls[t] = MaxCalls
         /\ pc[t] = "idle" /\ returned = {result[t]}

\* C10: in variants 2, 4 and 5, once a call has returned, no step of any
\* thread changes the constructor counter (which is 1), the slot, or the set
\* of identities returned.
C10_Idempotent ==
    [][ (variant \in {2, 4, 5} /\ returned # {}) =>
          (ctorCount = 1 /\ ctorCount' = ctorCount
             /\ m_instance' = m_instance /\ returned' = returned) ]_vars

\* C10 witness: after the first call returned, the same thread and another
\* thread have completed later calls, with one construction in all.
C10_Witness ==
    /\ variant = 2 /\ ctorCount = 1 /\ failures = 0
    /\ TotalCalls = MaxCalls
    /\ \A t \in Threads : pc[t] = "idle" /\ calls[t] >= 2 /\ returned = {result[t]}

\* the positions at which a thread evaluates `new Singleton()`
NewPcs == {"v1_new", "v2_new", "v3_new", "v4_new"}

\* a step in which `new Singleton()` throws
ThrowStep == failures' = failures + 1

\* C11 (state part): in variants 2, 3 and 4 the slot and every returned
\* reference is an instance whose construction completed; until one has,
\* the slot is null and no call has returned.
C11_OnlyConstructedInstances ==
    variant \in {2, 3, 4} =>
        /\ Stored \subseteq 1..ctorCount
        /\ returned \subseteq 1..ctorCount
        /\ (ctorCount = 0 => SlotValue = Null /\ returned = {})
        /\ \A t \in Threads : pc[t] \in NewPcs => SlotValue = Null

\* C11 (step part): a failing `new` ends the call of the thread that made it
\* without a return value, happens only while the slot is null, and leaves
\* the slot, the constructor counter and the returned references unchanged.
C11_ThrowLeavesSlotUnset ==
    (variant \in {2, 3, 4} /\ ThrowStep) =>
        (/\ SlotValue = Null
         /\ m_instance' = m_instance
         /\ ctorCount' = ctorCount
         /\ returned' = returned /\ result' = result
         /\ \E t \in Threads :
              /\ pc[t] \in NewPcs /\ pc'[t] = "idle"
              /\ \A u \in Threads \ {t} : pc'[u] = pc[u])

\* C11: in variants 2, 3 and 4 a failing `new Singleton()` propagates to the
\* calling thread and leaves the slot null, a later call finds the slot null
\* and constructs again, and no call returns an instance whose construction
\* failed.
C11_ConstructionFailure ==
    []C11_OnlyConstructedInstances /\ [][C11_ThrowLeavesSlotUnset]_vars

\* C11 witness: `new` threw in one thread's call, the slot stayed null, and a
\* later call by the other thread constructed the instance and returned it.
C11_Witness ==
    /\ variant \in {2, 3, 4} /\ failures = 1 /\ ctorCount = 1
    /\ \E t, u \in Threads :
         /\ t # u
         /\ calls[t] = 1 /\ pc[t] = "idle" /\ result[t] = Null
         /\ calls[u] = 1 /\ pc[u] = "idle" /\ result[u] = SlotValue
         /\ result[u] # Null

\* ---- scheduling

\* thread t takes the mutex
LockStep(t) == V2Lock(t) \/ V3Lock(t) \/ V4Lock(t)

\* any other step of thread t inside getInstance()
Proceed(t) ==
    \/ V1Check(t) \/ V1New(t) \/ V1NewThrows(t) \/ V1Store(t) \/ V1Ret(t)
    \/ V2Check(t) \/ V2New(t) \/ V2NewThrows(t) \/ V2Store(t) \/ V2Ret(t)
    \/ V2Unlock(t)
    \/ V3Check1(t) \/ V3Check2(t) \/ V3New(t) \/ V3NewThrows(t)
    \/ V3Store(t) \/ V3Unlock(t) \/ V3Ret(t)
    \/ V4Load1(t) \/ V4FenceAcq(t) \/ V4Load2(t) \/ V4New(t)
    \/ V4NewThrows(t) \/ V4FenceRel(t) \/ V4Store(t) \/ V4Unlock(t)
    \/ V4Ret(t)
    \/ V5Guard(t) \/ V5Init(t) \/ V5Done(t) \/ V5Ret(t)

\* a thread inside getInstance() keeps running (no thread is required to
\* call), and a thread that finds the mutex free again and again gets it
Fairness ==
    \A t \in Threads : WF_vars(Proceed(t)) /\ SF_vars(LockStep(t))

\* the variants that use the mutex
InitLocked == Init /\ variant \in {2, 3, 4}

NextLocked ==
    \E t \in Threads :
        \/ Call(t)
        \/ V2Lock(t) \/ V2Check(t) \/ V2New(t) \/ V2NewThrows(t)
        \/ V2Store(t) \/ V2Ret(t) \/ V2Unlock(t)
        \/ V3Check1(t) \/ V3Lock(t) \/ V3Check2(t) \/ V3New(t)
        \/ V3NewThrows(t) \/ V3Store(t) \/ V3Unlock(t) \/ V3Ret(t)
        \/ V4Load1(t) \/ V4FenceAcq(t) \/ V4Lock(t) \/ V4Load2(t)
        \/ V4New(t) \/ V4NewThrows(t) \/ V4FenceRel(t) \/ V4Store(t)
        \/ V4Unlock(t) \/ V4Ret(t)
        \/ ReadField(t)

FairSpec == InitLocked /\ [][NextLocked]_vars /\ Fairness

\* the positions at which a thread waits for the mutex
LockPcs == {"v2_lock", "v3_lock", "v4_lock"}

\* C12: in variants 2, 3 and 4, under fair scheduling and a fair mutex, every
\* call that has started eventually ends (it returns, or `new`'s exception
\* leaves it): no thread waits for the mutex for ever.
C12_EveryCallEnds ==
    \A t \in Threads :
        (variant \in {2, 3, 4} /\ pc[t] # "idle") ~> (pc[t] = "idle")

\* C12 witness: a thread waits for the mutex while another thread, which
\* holds it, is inside the critical section.
C12_Witness ==
    /\ variant \in {2, 3, 4}
    /\ \E t, u \in Threads :
         /\ t # u
         /\ m_mutex = t /\ pc[t] \notin LockPcs /\ pc[t] # "idle"
         /\ pc[u] \in LockPcs

\* the positions at which a thread stores to the slot
StorePcs == {"v1_store", "v2_store", "v3_store", "v4_store"}

\* C13 (state part): a thread about to store to the slot owns the mutex.
C13_StorerOwnsMutex ==
    variant \in {2, 3, 4} =>
        \A t \in Threads : pc[t] \in StorePcs => m_mutex = t

\* C13 (step part): every step that changes the slot is a step of the
\* thread that owns the mutex, taken from a store position with the mutex
\* kept.
C13_StoreStepByOwner ==
    (variant \in {2, 3, 4} /\ m_instance' # m_instance) =>
        (/\ m_mutex \in Threads
         /\ m_mutex' = m_mutex
         /\ pc[m_mutex] \in StorePcs
         /\ pc'[m_mutex] # pc[m_mutex]
         /\ \A u \in Threads \ {m_mutex} : pc'[u] = pc[u])

\* C13: in variants 2, 3 and 4 the slot is stored to only by the thread that
\* holds the mutex, so no two stores to the slot are concurrent.
C13_SlotWrittenUnderMutex ==
    []C13_StorerOwnsMutex /\ [][C13_StoreStepByOwner]_vars

\* C13 witness: the mutex owner has just stored the instance it constructed
\* while another thread waits for the mutex.
C13_Witness ==
    /\ variant \in {2, 3, 4}
    /\ \E t, u \in Threads :
         /\ t # u
         /\ calls[t] = 1 /\ calls[u] = 1
         /\ m_mutex = t /\ pc[t] \in {"v2_ret", "v3_unlock", "v4_unlock"}
         /\ tmp[t] # Null /\ tmp[t] = SlotValue
         /\ pc[u] \in LockPcs

\* the positions at which a thread reads the slot
ReadPcs == {"v1_check", "v1_ret", "v2_check", "v2_ret", "v3_check1",
            "v3_check2", "v3_ret", "v4_load1", "v4_load2"}

\* the reads of the slot that the code places inside the critical section
LockedReadPcs == {"v2_check", "v2_ret", "v3_check2", "v4_load2"}

\* the step in which thread t reads the slot
SlotReadBy(t) == pc[t] \in ReadPcs /\ pc'[t] # pc[t]

\* C14 as claimed: a read of the slot by a thread that does not hold the
\* mutex happens only in variants 4 and 5.
C14_UnlockedReadsOnlyV4V5 ==
    [][ \A t \in Threads :
          (SlotReadBy(t) /\ m_mutex # t) => variant \in {4, 5} ]_vars

\* C14 (step part, amended): a read of the slot is made with the mutex held
\* exactly when it is one of the reads of variant 2 or the second check of
\* variant 3 or 4; the unlocked load of variant 4 is followed by the acquire
\* fence.
C14_ReadStep ==
    \A t \in Threads :
        SlotReadBy(t) =>
            (/\ (m_mutex = t) <=> (pc[t] \in LockedReadPcs)
             /\ (pc[t] = "v4_load1" => pc'[t] = "v4_fence_acq"))

\* C14 (state part, amended): variant 5 has no slot to read.
C14_NoSlotInV5 ==
    variant = 5 =>
        /\ Len(m_instance) = 1
        /\ \A t \in Threads : pc[t] \notin ReadPcs

\* C14 amended: the slot is read without the mutex held in variant 1 (both
\* reads), in variant 3 (the first null-check and the re-read for the return
\* value) and in variant 4 (the first load, followed by the acquire fence);
\* every other read of the slot is made by the mutex owner, and variant 5
\* reads no slot.
C14_UnlockedReads ==
    []C14_NoSlotInV5 /\ [][C14_ReadStep]_vars

\* C14 witness: in variant 3 a thread that has never held the mutex has read
\* the slot at the first null-check while another thread holds the mutex.
C14_Witness ==
    /\ variant = 3
    /\ \E t, u \in Threads :
         /\ t # u
         /\ calls[t] = 1 /\ path[t] = "fast" /\ pc[t] = "v3_ret"
         /\ m_mutex = u

\* the positions inside a lock_guard's scope, after the lock was acquired
CriticalPcs ==
    {"v2_check", "v2_new", "v2_store", "v2_ret", "v2_unlock",
     "v3_check2", "v3_new", "v3_store", "v3_unlock",
     "v4_load2", "v4_new", "v4_fence_rel", "v4_store", "v4_unlock"}

\* C15 (state part): in variant 2 a thread past the lock acquisition and not
\* yet returned owns the mutex, so at most one thread is there.
C15_InsideCallOwnsMutex ==
    variant = 2 =>
        /\ \A t \in Threads :
             pc[t] \notin {"idle", "v2_lock"} =>
                 pc[t] \in CriticalPcs /\ m_mutex = t
        /\ Cardinality({ t \in Threads : pc[t] \in CriticalPcs }) <= 1

\* C15 (step part): in variant 2 every call starts at the lock acquisition,
\* every read of the slot is made by the mutex owner, and a call ends with
\* the mutex held until then and released.
C15_CallStep ==
    variant = 2 =>
        \A t \in Threads :
            /\ (pc[t] = "idle" /\ pc'[t] # "idle" => pc'[t] = "v2_lock")
            /\ (SlotReadBy(t) => m_mutex = t /\ m_mutex' = t)
            /\ (pc[t] # "idle" /\ pc'[t] = "idle" => m_mutex = t /\ m_mutex' = 0)

\* C15: variant 2 acquires the mutex on every call, before reading the slot,
\* and holds it until the value to return has been read; no two threads are
\* at once between lock acquisition and return.
C15_LockOnEveryCallV2 ==
    []C15_InsideCallOwnsMutex /\ [][C15_CallStep]_vars

\* C15 witness: after the slot was initialised and a call returned, a thread
\* in a later call holds the mutex to read the slot while the other thread
\* waits for the mutex.
C15_Witness ==
    /\ variant = 2 /\ SlotValue # Null /\ returned # {}
    /\ \E t, u \in Threads :
         /\ t # u
         /\ calls[t] >= 2 /\ pc[t] = "v2_check" /\ m_mutex = t
         /\ pc[u] = "v2_lock"

\* C16 (state part): in variants 3 and 4 a thread whose first unlocked read
\* was non-null is at the return or has returned, and does not own the
\* mutex; a thread waiting for or inside the critical section read null.
C16_FastPathHoldsNoMutex ==
    variant \in {3, 4} =>
        \A t \in Threads :
            /\ (path[t] = "fast" =>
                  pc[t] \in {"v3_ret", "v4_ret", "idle"} /\ m_mutex # t)
            /\ (pc[t] \in LockPcs \cup CriticalPcs => path[t] = "slow")
            /\ (pc[t] = "v4_lock" => tmp[t] = Null)

\* C16 (step part): the first check goes to the return exactly when the value
\* it read is non-null and to the lock acquisition exactly when it is null,
\* and a thread acquires the mutex only in a call whose first read was null.
C16_FirstCheckStep ==
    variant \in {3, 4} =>
        \A t \in Threads :
            /\ (pc[t] = "v3_check1" /\ pc'[t] # pc[t] =>
                  /\ (pc'[t] = "v3_ret") <=> (m_instance[cur'[t].slot].val # Null)
                  /\ (pc'[t] = "v3_lock") <=> (m_instance[cur'[t].slot].val = Null))
            /\ (pc[t] = "v4_fence_acq" /\ pc'[t] # pc[t] =>
                  /\ (pc'[t] = "v4_ret") <=> (tmp[t] # Null)
                  /\ (pc'[t] = "v4_lock") <=> (tmp[t] = Null))
            /\ (m_mutex # t /\ m_mutex' = t => path[t] = "slow")

\* C16: in variants 3 and 4 a call whose first unlocked read of the slot is
\* non-null returns without acquiring the mutex, and a call acquires the
\* mutex only if its first read was null.
C16_LockOnlyOnSlowPath ==
    []C16_FastPathHoldsNoMutex /\ [][C16_FirstCheckStep]_vars

\* C16 witness: a thread's only call read a non-null slot at the first check
\* and has returned it, the mutex having been taken only by the other thread.
C16_Witness ==
    /\ variant \in {3, 4} /\ ctorCount = 1
    /\ \E t, u \in Threads :
         /\ t # u
         /\ calls[t] = 1 /\ path[t] = "fast"
         /\ pc[t] = "idle" /\ result[t] = SlotValue /\ result[t] # Null
         /\ path[u] = "slow"

\* C17: in variant 3 the constructor runs at most once and the slot is stored
\* to at most once, whichever stores the unlocked reads observe (the latest
\* one, as for a sequentially consistent slot, or an older one): a thread is
\* at the construction or the store only while nothing has been stored.
C17_ConstructedOnceV3 ==
    variant = 3 =>
        /\ ctorCount <= 1
        /\ Len(m_instance) <= 2
        /\ \A t \in Threads :
             pc[t] \in {"v3_new", "v3_store"} => Len(m_instance) = 1

\* C17 witness: two threads both passed the first unlocked null-check; one
\* constructed and stored, the other took the mutex after it, found the slot
\* set at the second check and did not construct.
C17_Witness ==
    /\ variant = 3 /\ ctorCount = 1 /\ failures = 0 /\ Len(m_instance) = 2
    /\ \E t, u \in Threads :
         /\ t # u
         /\ calls[t] = 1 /\ calls[u] = 1
         /\ path[t] = "slow" /\ path[u] = "slow"
         /\ pc[t] \in {"v3_ret", "idle"} /\ tmp[t] = SlotValue
         /\ pc[u] = "v3_unlock" /\ m_mutex = u /\ tmp[u] = Null

\* C18 (state part): in variants 1 to 4 no store to the slot and no returned
\* reference is null; a thread about to read the slot for its return value
\* (variants 1 and 3) has already seen a non-null store, and a thread about
\* to return its local copy (variants 2 and 4) holds a non-null pointer.
C18_NonNullOnceSet ==
    variant \in 1..4 =>
        /\ Null \notin Stored
        /\ Null \notin returned
        /\ \A t \in Threads :
             /\ (pc[t] \in {"v1_ret", "v3_ret"} =>
                   m_instance[cur[t].slot].val # Null)
             /\ (pc[t] \in {"v2_unlock", "v4_ret"} => tmp[t] # Null)

\* C18 (step part): once the slot is set no step makes it null again, and
\* every step that returns a value returns a non-null one.
C18_SlotStaysSet ==
    variant \in 1..4 =>
        /\ (SlotValue # Null => SlotValue' # Null)
        /\ \A t \in Threads : result'[t] # result[t] => result'[t] # Null

\* C18: in variants 1 to 4 the slot never returns to null once set, and every
\* call that returns normally returns a non-null pointer, including variant
\* 3's re-read of the slot outside the critical section and variant 4's
\* return of its local copy.
C18_NeverNull ==
    []C18_NonNullOnceSet /\ [][C18_SlotStaysSet]_vars

\* C18 witness: in variant 3 a thread that found the slot set at the second
\* check, under the mutex, has left the critical section, re-read the slot
\* and returned the instance the other thread constructed.
C18_Witness ==
    /\ variant = 3 /\ ctorCount = 1 /\ failures = 0
    /\ \E t, u \in Threads :
         /\ t # u
         /\ calls[t] = 1 /\ calls[u] = 1
         /\ path[t] = "slow" /\ path[u] = "slow"
         /\ tmp[u] = Null
         /\ pc[u] = "idle" /\ result[u] = SlotValue /\ result[u] # Null

\* C19 (state part): in variants 2, 3 and 4 a thread owns the mutex exactly
\* when it is inside a lock_guard's scope; a thread that is not executing
\* getInstance(), or has left the scope, does not own it.
C19_OwnerIsInsideScope ==
    variant \in {2, 3, 4} =>
        /\ m_mutex \in Threads \cup {0}
        /\ \A t \in Threads : (m_mutex = t) <=> (pc[t] \in CriticalPcs)

\* C19 (step part): a step that ends a call (a return, or a failing `new`)
\* or leaves the lock_guard's scope from inside it releases the mutex.
C19_ExitReleases ==
    variant \in {2, 3, 4} =>
        \A t \in Threads :
            (pc[t] \in CriticalPcs /\ pc'[t] \notin CriticalPcs) =>
                (m_mutex = t /\ m_mutex' = 0)

\* C19: in variants 2, 3 and 4 the mutex is owned only by a thread executing
\* inside getInstance(), and is released on every exit, after a normal
\* return and after a construction failure.
C19_LockReleasedOnExit ==
    []C19_OwnerIsInsideScope /\ [][C19_ExitReleases]_vars

\* C19 witness: `new` threw in one thread's call, which left the call, and
\* the other thread has since acquired the mutex.
C19_Witness ==
    /\ variant \in {2, 3, 4} /\ failures = 1 /\ ctorCount = 0
    /\ \E t, u \in Threads :
         /\ t # u
         /\ calls[t] = 1 /\ pc[t] = "idle"
         /\ calls[u] = 1 /\ m_mutex = u /\ pc[u] \in NewPcs

=============================================================================
